---- MODULE Spec2Model ----
(***************************************************************************)
(* A model of the gallery package's album installation pipeline:           *)
(* Album.Install = load -> ChooseImages -> GenerateImages (worker pool)    *)
(* -> GenerateHTML, over a modelled install directory.                     *)
(*                                                                         *)
(* Filenames and paths are sequences of one-character strings, so that     *)
(* strings.Split, path.Join, path.Base and %d formatting are computed the  *)
(* way the code computes them.  Names of HTML files are TLA+ strings built *)
(* with ToString, as fmt.Sprintf("page-%d.html", n) builds them.           *)
(*                                                                         *)
(* []*Image slices are sequences of indices into `heap`, the Image structs *)
(* allocated so far, so that aliasing between a.images and a.chosenImages  *)
(* is kept.                                                                *)
(***************************************************************************)
EXTENDS Integers, Sequences, FiniteSets, TLC

(***************************************************************************)
(* Bounds of the model.                                                    *)
(***************************************************************************)
\* Most image blocks in the album file.
MaxImages == 3
\* Most image blocks in the album file when several workers resize.
MaxPoolImages == 2
\* Largest Album.Workers.
MaxWorkers == 2
\* Largest Album.PageSize.
MaxPageSize == 2
\* Most calls of Install on the one Album value.
MaxRuns == 2
\* Most lines of an album file given line by line.
MaxLines == 4
\* Most images written to an album file and read back.
MaxRecords == 2
\* Most album blocks in a gallery file.
MaxAlbums == 2

(***************************************************************************)
(* The environment: what the album file can hold, which source images the  *)
(* image library can open, and the album's fixed configuration.            *)
(***************************************************************************)
NameA == <<"a", ".", "j", "p", "g">>
NameB == <<"b", ".", "j", "p", "g">>
NameC == <<"c", ".", "v", "2", ".", "j", "p", "g">>
NameD == <<"d", ".", "j", "p", "g">>
NameD100 == <<"d", "_", "1", "0", "0", ".", "j", "p", "g">>
NameE == <<"e">>

\* Tags and descriptions, as strings of characters.
TagX == <<"x">>
TagY == <<"y">>
TagUpperX == <<"X">>
DescDog == <<"A", " ", "d", "o", "g">>

\* The blocks an album file is made of here: filename, description, tags.
Blocks ==
  { [Filename |-> NameA, Description |-> <<>>,    Tags |-> <<TagX>>],
    [Filename |-> NameB, Description |-> DescDog, Tags |-> <<TagX, TagY>>],
    [Filename |-> NameC, Description |-> <<>>,    Tags |-> <<TagY>>],
    [Filename |-> NameD, Description |-> <<>>,    Tags |-> <<TagUpperX>>] }

\* The blocks of the album files that try the derived names: one '.', a
\* name ending in a size, no '.', two '.'.
NameBlocks ==
  { [Filename |-> NameD,    Description |-> <<>>, Tags |-> <<>>],
    [Filename |-> NameD100, Description |-> <<>>, Tags |-> <<>>],
    [Filename |-> NameE,    Description |-> <<>>, Tags |-> <<>>],
    [Filename |-> NameC,    Description |-> <<>>, Tags |-> <<>>] }

\* The lines an album file given line by line is made of: two filenames
\* (one with white space around it), a description, a tag line, a tag line
\* of empty pieces, a tag line with nothing after the prefix, a blank line
\* and a comment.
PaddedNameB == <<" ">> \o NameB \o <<" ">>
TagLineXY == <<"T", "a", "g", ":", " ", "x", ",", " ", "y">>
TagLineNoPieces == <<"T", "a", "g", ":", " ", ",">>
TagLineBare == <<"T", "a", "g", ":", " ">>
CommentLine == <<"#", "c">>
ParseLines ==
  { NameA, PaddedNameB, DescDog, TagLineXY, TagLineNoPieces, TagLineBare,
    <<>>, CommentLine }

\* The images written to an album file and read back: filenames,
\* descriptions and tags, with and without white space around them and a
\* leading '#'.
RoundTripImages ==
  { [Filename |-> f, Description |-> d, Tags |-> t] :
      f \in { NameA, PaddedNameB },
      d \in { <<>>, DescDog, CommentLine },
      t \in { <<>>, <<TagX>>, <<TagX, TagY>>, << <<" ", "x">> >> } }

\* Source images magick.NewFromFile fails to open.
UnreadableSources == { NameD }

\* The values Album.Tags takes here.
TagLists == { <<>>, <<TagX>>, <<TagY, TagX>>, <<TagUpperX>> }

\* The values Album.Tags takes where several workers resize.
PoolTagLists == { <<>>, <<TagX>> }

\* The album files a gallery file can name: one listing a.jpg tagged x,
\* one listing b.jpg tagged y, and one that does not exist.
AlbumFileA == <<"f">>
AlbumFileB == <<"h">>
MissingFile == <<"m">>

\* The blocks a gallery file is made of here: the value of each key, the
\* empty value standing for a block without the line of that key.
GalleryBlocks ==
  { [Name |-> <<"n">>, Dir |-> d, SubDir |-> sd, File |-> f, Tags |-> t] :
      d \in { <<>>, <<"o">> },
      sd \in { <<>>, <<"s">> },
      f \in { <<>>, AlbumFileA, AlbumFileB, MissingFile },
      t \in { <<>>, TagX } }

OrigImageDir == <<"o">>
InstallDir == <<"w">>
InstallSubDir == <<"s">>
ThumbnailSize == 100
LargeImageSize == 600

RECURSIVE SeqsUpTo(_, _)
SeqsUpTo(S, n) ==
  IF n = 0 THEN { <<>> }
  ELSE LET shorter == SeqsUpTo(S, n - 1)
       IN shorter \cup { Append(s, x) : s \in shorter, x \in S }

EmptyMap == [k \in {} |-> 0]

(***************************************************************************)
(* String helpers: strings.Split on one separator, path.Join, path.Base,   *)
(* and %d.                                                                 *)
(***************************************************************************)
RECURSIVE Split(_, _)
Split(s, sep) ==
  IF \A k \in 1..Len(s) : s[k] # sep THEN << s >>
  ELSE LET k == CHOOSE j \in 1..Len(s) :
                  s[j] = sep /\ \A m \in 1..(j - 1) : s[m] # sep
       IN << SubSeq(s, 1, k - 1) >> \o Split(SubSeq(s, k + 1, Len(s)), sep)

Digit(d) == << "0", "1", "2", "3", "4", "5", "6", "7", "8", "9" >>[d + 1]

RECURSIVE Itoa(_)
Itoa(n) == IF n < 10 THEN << Digit(n) >> ELSE Itoa(n \div 10) \o << Digit(n % 10) >>

PathJoin(dir, name) == dir \o << "/" >> \o name

PathBase(p) == LET pieces == Split(p, "/") IN pieces[Len(pieces)]

\* The white space of the model: unicode.IsSpace on its characters.
IsSpace(c) == c \in { " ", "\t" }

\* strings.TrimSpace
RECURSIVE TrimSpace(_)
TrimSpace(s) ==
  IF s = <<>> THEN s
  ELSE IF IsSpace(Head(s)) THEN TrimSpace(Tail(s))
  ELSE IF IsSpace(s[Len(s)]) THEN TrimSpace(SubSeq(s, 1, Len(s) - 1))
  ELSE s

\* strings.HasPrefix
HasPrefix(s, prefix) ==
  Len(s) >= Len(prefix) /\ SubSeq(s, 1, Len(prefix)) = prefix

\* strings.Join
RECURSIVE Join(_, _)
Join(pieces, sep) ==
  IF pieces = <<>> THEN <<>>
  ELSE IF Len(pieces) = 1 THEN pieces[1]
  ELSE pieces[1] \o sep \o Join(Tail(pieces), sep)

(***************************************************************************)
(* image.go                                                                *)
(***************************************************************************)
\* Image.hasTag
hasTag(i, tag) == \E k \in 1..Len(i.Tags) : i.Tags[k] = tag

\* getResizedFilename taking the first two pieces of a name with several
\* '.'.
getResizedFilename_FirstTwoPieces(i, dir, width, height) ==
  LET namePieces == Split(i.Filename, ".")
  IN IF Len(namePieces) < 2
       THEN [err |-> TRUE, path |-> <<>>]
       ELSE [err |-> FALSE,
             path |-> PathJoin(dir, namePieces[1] \o <<"_">> \o Itoa(width)
                                 \o (IF height # -1
                                       THEN <<"_">> \o Itoa(height) ELSE <<>>)
                                 \o <<".">> \o namePieces[2])]

\* Image.getResizedFilename: [err, path]
getResizedFilename(i, dir, width, height) ==
  LET namePieces == Split(i.Filename, ".")
  IN IF Len(namePieces) # 2
       THEN [err |-> TRUE, path |-> <<>>]
       ELSE LET newName ==
                  IF height # -1
                    THEN namePieces[1] \o <<"_">> \o Itoa(width) \o <<"_">>
                           \o Itoa(height) \o <<".">> \o namePieces[2]
                    ELSE namePieces[1] \o <<"_">> \o Itoa(width) \o <<".">>
                           \o namePieces[2]
            IN [err |-> FALSE, path |-> PathJoin(dir, newName)]

\* The image library on one source: opening fails for an unreadable source
\* (magick.NewFromFile), otherwise the resized image is saved (image.ToFile).
TransformOK(i) == i.Filename \notin UnreadableSources

\* The file a successful transform leaves: what it was made from, its
\* geometry, and when (the Install run) it was written.
DerivedFile(i, kind, size, now) ==
  [kind |-> kind, src |-> i.Path, size |-> size, mtime |-> now]

\* ChecksExisting with the existence check made even when forced.
ChecksExisting_Always(forceGenerate) == TRUE

\* ChecksExisting with the existence check never made.
ChecksExisting_Never(forceGenerate) == FALSE

\* Whether the existence check is made before the transform.
ChecksExisting(forceGenerate) == ~forceGenerate

\* Image.makeThumbnail on image i over files `d`, at time `now`:
\* [err, image, disk, invoked] -- invoked: the transform was called.
makeThumbnail(i, d, dir, forceGenerate, now) ==
  LET r == getResizedFilename(i, dir, i.ThumbnailSize, i.ThumbnailSize)
      resizeFile == r.path
      set == [i EXCEPT !.ThumbnailPath = resizeFile,
                       !.ThumbnailFilename = PathBase(resizeFile)]
  IN IF r.err
       THEN [err |-> TRUE, image |-> i, disk |-> d, invoked |-> FALSE]
     ELSE IF ChecksExisting(forceGenerate) /\ resizeFile \in DOMAIN d
       THEN [err |-> FALSE, image |-> set, disk |-> d, invoked |-> FALSE]
     ELSE IF ~TransformOK(i)
       THEN [err |-> TRUE, image |-> i, disk |-> d, invoked |-> TRUE]
     ELSE [err |-> FALSE, image |-> set,
           disk |-> (resizeFile :> DerivedFile(i, "thumb", i.ThumbnailSize, now)) @@ d,
           invoked |-> TRUE]

\* Image.makeLargeImage
makeLargeImage(i, d, dir, forceGenerate, now) ==
  LET r == getResizedFilename(i, dir, i.LargeImageSize, -1)
      resizeFile == r.path
      set == [i EXCEPT !.LargeImagePath = resizeFile,
                       !.LargeImageFilename = PathBase(resizeFile)]
  IN IF r.err
       THEN [err |-> TRUE, image |-> i, disk |-> d, invoked |-> FALSE]
     ELSE IF ChecksExisting(forceGenerate) /\ resizeFile \in DOMAIN d
       THEN [err |-> FALSE, image |-> set, disk |-> d, invoked |-> FALSE]
     ELSE IF ~TransformOK(i)
       THEN [err |-> TRUE, image |-> i, disk |-> d, invoked |-> TRUE]
     ELSE [err |-> FALSE, image |-> set,
           disk |-> (resizeFile :> DerivedFile(i, "large", i.LargeImageSize, now)) @@ d,
           invoked |-> TRUE]

\* ThumbnailErrorReturns with the error of the thumbnail dropped.
ThumbnailErrorReturns_Never(err) == FALSE

\* Whether makeImages returns after makeThumbnail, with its error.
ThumbnailErrorReturns(err) == err

\* Image.makeImages: the thumbnail, then the large image unless the
\* thumbnail failed.  [err, image, disk]
makeImages(i, d, dir, forceGenerate, now) ==
  LET t == makeThumbnail(i, d, dir, forceGenerate, now)
      l == makeLargeImage(t.image, t.disk, dir, forceGenerate, now)
  IN IF ThumbnailErrorReturns(t.err) THEN [err |-> TRUE, image |-> t.image, disk |-> t.disk]
     ELSE [err |-> l.err, image |-> l.image, disk |-> l.disk]

(***************************************************************************)
(* html.go                                                                 *)
(***************************************************************************)
\* The name of the file of album page `page` (makeAlbumPageHTML).
AlbumPageFilename(page) ==
  IF page > 1 THEN "page-" \o ToString(page) \o ".html" ELSE "index.html"

\* The name of the file of the page of the image with flat index `index`
\* (makeImagePageHTML).
ImagePageFilename(index) == "image-" \o ToString(index) \o ".html"

\* SkipsExisting with the force flag ignored.
SkipsExisting_IgnoringForce(forceGenerate, exists) == exists

\* Whether a page call returns early, leaving the file as it is.
SkipsExisting(forceGenerate, exists) == ~forceGenerate /\ exists

\* AlbumPreviousURL without the index.html case of page 2.
AlbumPreviousURL_NoIndex(page) ==
  IF page > 1 THEN "page-" \o ToString(page - 1) \o ".html" ELSE ""

\* previousURL of album page `page`.
AlbumPreviousURL(page) ==
  IF page > 1
    THEN IF page = 2 THEN "index.html"
         ELSE "page-" \o ToString(page - 1) \o ".html"
    ELSE ""

\* nextURL of album page `page` of `totalPages`.
AlbumNextURL(page, totalPages) ==
  IF page < totalPages THEN "page-" \o ToString(page + 1) \o ".html" ELSE ""

\* makeAlbumPageHTML over the HTML files `files`: [files, wrote].
makeAlbumPageHTML(files, totalPages, totalImages, page, images, forceGenerate, now) ==
  LET filename == AlbumPageFilename(page)
      exists == filename \in DOMAIN files
  IN IF SkipsExisting(forceGenerate, exists)
       THEN [files |-> files, wrote |-> FALSE]
       ELSE [files |->
               (filename :> [kind |-> "album",
                             Images |-> images,
                             TotalPages |-> totalPages,
                             Page |-> page,
                             TotalImages |-> totalImages,
                             PreviousURL |-> AlbumPreviousURL(page),
                             NextURL |-> AlbumNextURL(page, totalPages),
                             mtime |-> now]) @@ files,
             wrote |-> TRUE]

\* ImageNextURL with the last image linking on.
ImageNextURL_PastEnd(index, totalImages) ==
  IF index < totalImages THEN "image-" \o ToString(index + 1) \o ".html" ELSE ""

\* nextURL of the page of image `index` of `totalImages`.
ImageNextURL(index, totalImages) ==
  IF index < totalImages - 1 THEN "image-" \o ToString(index + 1) \o ".html" ELSE ""

\* previousURL of the page of image `index`.
ImagePreviousURL(index) ==
  IF index > 0 THEN "image-" \o ToString(index - 1) \o ".html" ELSE ""

\* ImageBackURL always naming the first page.
ImageBackURL_AlwaysIndex(page) == "index.html"

\* backURL of an image page made while album page `page` is being collected.
ImageBackURL(page) ==
  IF page > 1 THEN "page-" \o ToString(page) \o ".html" ELSE "index.html"

\* makeImagePageHTML over the HTML files `files`: [files, wrote].
makeImagePageHTML(files, image, totalImages, forceGenerate, page, now) ==
  LET htmlPath == ImagePageFilename(image.Index)
      exists == htmlPath \in DOMAIN files
  IN IF SkipsExisting(forceGenerate, exists)
       THEN [files |-> files, wrote |-> FALSE]
       ELSE [files |->
               (htmlPath :> [kind |-> "image",
                             Index |-> image.Index,
                             OriginalImageURL |-> image.OriginalImageURL,
                             FullImageURL |-> image.FullImageURL,
                             Description |-> image.Description,
                             BackURL |-> ImageBackURL(page),
                             NextURL |-> ImageNextURL(image.Index, totalImages),
                             PreviousURL |-> ImagePreviousURL(image.Index),
                             mtime |-> now]) @@ files,
             wrote |-> TRUE]

\* The gallery's index.html, as a path from the album's install directory
\* (filepath.Join(g.InstallDir, subDir)).
GalleryPageFilename == "../index.html"

\* makeGalleryHTML over the HTML files `files`: [files, wrote].
makeGalleryHTML(files, albums, forceGenerate, now) ==
  LET htmlPath == GalleryPageFilename
      exists == htmlPath \in DOMAIN files
  IN IF SkipsExisting(forceGenerate, exists)
       THEN [files |-> files, wrote |-> FALSE]
       ELSE [files |-> (htmlPath :> [kind |-> "gallery", Albums |-> albums,
                                     mtime |-> now]) @@ files,
             wrote |-> TRUE]

(***************************************************************************)
(* album.go                                                                *)
(***************************************************************************)
\* The literal prefix of a tag line.
TagPrefix == <<"T", "a", "g", ":", " ">>

\* &Image{Filename: ..., Description: ..., Tags: ...}: the other fields
\* have their zero values.
NewImage(filename, description, tags) ==
  [Path |-> <<>>, Filename |-> filename,
   Description |-> description, Tags |-> tags,
   ThumbnailSize |-> 0, LargeImageSize |-> 0,
   ThumbnailPath |-> <<>>, ThumbnailFilename |-> <<>>,
   LargeImagePath |-> <<>>, LargeImageFilename |-> <<>>]

\* Whether a trimmed line is taken as a tag line.
IsTagLine(line) == HasPrefix(line, TagPrefix) /\ Len(line) > 5

\* TagsOfLine without the trimming of the pieces.
TagsOfLine_Untrimmed(line) ==
  SelectSeq(Split(SubSeq(line, 6, Len(line)), ","), LAMBDA tag : Len(tag) # 0)

\* The tags of a tag line: the pieces of line[5:] between commas, each
\* trimmed, the empty ones skipped.
TagsOfLine(line) ==
  LET rawTags == Split(SubSeq(line, 6, Len(line)), ",")
      trimmed == [k \in 1..Len(rawTags) |-> TrimSpace(rawTags[k])]
  IN SelectSeq(trimmed, LAMBDA tag : Len(tag) # 0)

\* FlushesLast with the last block dropped.
FlushesLast_Never(filename) == FALSE

\* Whether the block is stored at the end of the file.
FlushesLast(filename) == Len(filename) > 0

\* One iteration of the scanner loop of ParseAlbumFile, on the line `text`.
\* st = [images, filename, description, tags].
ScanLine(st, text) ==
  LET line == TrimSpace(text)
  IN IF Len(line) > 0 /\ line[1] = "#" THEN st
     ELSE IF Len(st.filename) = 0
       THEN IF Len(line) = 0 THEN st
            ELSE [st EXCEPT !.filename = line]
     ELSE IF Len(line) = 0
       THEN [images |-> Append(st.images,
                               NewImage(st.filename, st.description, st.tags)),
             filename |-> <<>>, description |-> <<>>, tags |-> <<>>]
     ELSE IF IsTagLine(line)
       THEN [st EXCEPT !.tags = st.tags \o TagsOfLine(line)]
     ELSE [st EXCEPT !.description = line]

RECURSIVE ScanLoop(_, _)
ScanLoop(st, lines) ==
  IF lines = <<>> THEN st
  ELSE ScanLoop(ScanLine(st, Head(lines)), Tail(lines))

\* ParseAlbumFile on a file of the given lines: [images, err].  The file
\* opens, scans and closes without error, and the loop has no error return.
ParseAlbumFile(file) ==
  LET st == ScanLoop([images |-> <<>>, filename |-> <<>>,
                      description |-> <<>>, tags |-> <<>>], file)
  IN [images |-> IF FlushesLast(st.filename)
                   THEN Append(st.images,
                               NewImage(st.filename, st.description, st.tags))
                   ELSE st.images,
      err |-> FALSE]

\* The loop of Album.load over the parsed images.
LoadedImages(alb, images) ==
  [k \in 1..Len(images) |->
     [images[k] EXCEPT !.Path = PathJoin(OrigImageDir, images[k].Filename),
                       !.ThumbnailSize = alb.ThumbnailSize,
                       !.LargeImageSize = alb.LargeImageSize]]

\* The inner loop of ChooseImages for one image (pointer p, struct i): the
\* image is appended at its first wanted tag, and the loop breaks.
RECURSIVE ChooseTagLoop(_, _, _, _)
ChooseTagLoop(p, i, tags, chosen) ==
  IF tags = <<>> THEN chosen
  ELSE IF hasTag(i, Head(tags)) THEN Append(chosen, p)
  ELSE ChooseTagLoop(p, i, Tail(tags), chosen)

\* The outer loop of ChooseImages over a.images.
RECURSIVE ChooseLoop(_, _, _, _)
ChooseLoop(h, images, tags, chosen) ==
  IF images = <<>> THEN chosen
  ELSE ChooseLoop(h, Tail(images), tags,
                  ChooseTagLoop(Head(images), h[Head(images)], tags, chosen))

\* ChooseImagesResult without the no-tags case.
ChooseImagesResult_AlwaysFilter(h, alb) ==
  ChooseLoop(h, alb.images, alb.Tags, alb.chosenImages)

\* a.chosenImages after Album.ChooseImages, over the heap h.
ChooseImagesResult(h, alb) ==
  IF Len(alb.Tags) = 0 THEN alb.images
  ELSE ChooseLoop(h, alb.images, alb.Tags, alb.chosenImages)

\* totalPages as GenerateHTML computes it.
TotalPages(n, pageSize) ==
  (n \div pageSize) + (IF n % pageSize > 0 THEN 1 ELSE 0)

\* The HTMLImage GenerateHTML builds for chosen image number k (from 1).
MakeHTMLImage(i, k) ==
  [OriginalImageURL |-> i.Filename,
   ThumbImageURL |-> i.ThumbnailFilename,
   FullImageURL |-> i.LargeImageFilename,
   Description |-> i.Description,
   Index |-> k - 1]

\* PageIsFull one image late.
PageIsFull_OneLate(htmlImages, pageSize) == Len(htmlImages) = pageSize + 1

\* Whether the collected images make a full page.
PageIsFull(htmlImages, pageSize) == Len(htmlImages) = pageSize

\* One iteration of the loop of GenerateHTML, for chosen image number k.
\* st = [files, page, htmlImages, calls]; calls lists the page calls made.
HTMLLoopBody(st, h, alb, k, now) ==
  LET n == Len(alb.chosenImages)
      totalPages == TotalPages(n, alb.PageSize)
      htmlImage == MakeHTMLImage(h[alb.chosenImages[k]], k)
      r1 == makeImagePageHTML(st.files, htmlImage, n, alb.ForceGenerateHTML,
                              st.page, now)
      call1 == [kind |-> "image", file |-> ImagePageFilename(htmlImage.Index),
                index |-> htmlImage.Index, page |-> st.page, images |-> <<>>,
                wrote |-> r1.wrote]
      htmlImages == Append(st.htmlImages, htmlImage)
  IN IF PageIsFull(htmlImages, alb.PageSize)
       THEN LET r2 == makeAlbumPageHTML(r1.files, totalPages, n, st.page,
                                        htmlImages, alb.ForceGenerateHTML, now)
                call2 == [kind |-> "album", file |-> AlbumPageFilename(st.page),
                          index |-> -1, page |-> st.page, images |-> htmlImages,
                          wrote |-> r2.wrote]
            IN [files |-> r2.files, page |-> st.page + 1, htmlImages |-> <<>>,
                calls |-> st.calls \o << call1, call2 >>]
       ELSE [files |-> r1.files, page |-> st.page, htmlImages |-> htmlImages,
             calls |-> Append(st.calls, call1)]

\* HTMLLoop leaving out the images that have no thumbnail.
RECURSIVE HTMLLoop_SkipFailed(_, _, _, _, _)
HTMLLoop_SkipFailed(st, h, alb, k, now) ==
  IF k > Len(alb.chosenImages) THEN st
  ELSE IF h[alb.chosenImages[k]].ThumbnailFilename = <<>>
    THEN HTMLLoop_SkipFailed(st, h, alb, k + 1, now)
  ELSE HTMLLoop_SkipFailed(HTMLLoopBody(st, h, alb, k, now), h, alb, k + 1, now)

RECURSIVE HTMLLoop(_, _, _, _, _)
HTMLLoop(st, h, alb, k, now) ==
  IF k > Len(alb.chosenImages) THEN st
  ELSE HTMLLoop(HTMLLoopBody(st, h, alb, k, now), h, alb, k + 1, now)

\* Album.GenerateHTML over the HTML files `files`: [files, calls].
GenerateHTMLResult(files, h, alb, now) ==
  LET n == Len(alb.chosenImages)
      totalPages == TotalPages(n, alb.PageSize)
      st == HTMLLoop([files |-> files, page |-> 1, htmlImages |-> <<>>,
                      calls |-> <<>>], h, alb, 1, now)
  IN IF Len(st.htmlImages) > 0
       THEN LET r == makeAlbumPageHTML(st.files, totalPages, n, st.page,
                                       st.htmlImages, alb.ForceGenerateHTML, now)
            IN [files |-> r.files,
                calls |-> Append(st.calls,
                                 [kind |-> "album",
                                  file |-> AlbumPageFilename(st.page),
                                  index |-> -1, page |-> st.page,
                                  images |-> st.htmlImages, wrote |-> r.wrote])]
       ELSE [files |-> st.files, calls |-> st.calls]

(***************************************************************************)
(* gallery.go                                                              *)
(***************************************************************************)
KeyAlbumName == <<"a", "l", "b", "u", "m", "-", "n", "a", "m", "e">>
KeyAlbumDir == <<"a", "l", "b", "u", "m", "-", "d", "i", "r">>
KeyAlbumSubDir == <<"a", "l", "b", "u", "m", "-", "s", "u", "b", "d", "i", "r">>
KeyAlbumFile == <<"a", "l", "b", "u", "m", "-", "f", "i", "l", "e">>
KeyAlbumTags == <<"a", "l", "b", "u", "m", "-", "t", "a", "g", "s">>

\* strings.SplitN(text, sep, 2)
SplitN2(text, sep) ==
  IF \A k \in 1..Len(text) : text[k] # sep THEN << text >>
  ELSE LET k == CHOOSE j \in 1..Len(text) :
                  text[j] = sep /\ \A m \in 1..(j - 1) : text[m] # sep
       IN << SubSeq(text, 1, k - 1), SubSeq(text, k + 1, Len(text)) >>

\* The tags loadAlbum gives the album: the pieces of `tags` between
\* commas, trimmed, the empty ones left out.
AlbumTagsOf(tags) ==
  SelectSeq([k \in 1..Len(Split(tags, ",")) |-> TrimSpace(Split(tags, ",")[k])],
            LAMBDA tag : Len(tag) # 0)

\* Gallery.loadAlbum onto the albums loaded so far: [err, albums].  The
\* sizes, page size, workers and flags of the album are the gallery's.
loadAlbum(albums, name, dir, subDir, file, tags) ==
  IF Len(name) = 0 THEN [err |-> "blank name", albums |-> albums]
  ELSE IF Len(dir) = 0 THEN [err |-> "no directory provided", albums |-> albums]
  ELSE IF Len(subDir) = 0
    THEN [err |-> "no subdirectory provided", albums |-> albums]
  ELSE IF Len(file) = 0 THEN [err |-> "no file provided", albums |-> albums]
  ELSE [err |-> "",
        albums |-> Append(albums,
                          [Name |-> name,
                           File |-> file,
                           OrigImageDir |-> dir,
                           InstallDir |-> PathJoin(InstallDir, subDir),
                           InstallSubDir |-> subDir,
                           Tags |-> AlbumTagsOf(tags)])]

\* One iteration of the scan loop of Gallery.load.
\* st = [albumName, albumSubDir, albumDir, albumFile, albumTags, albums, err]
GalleryScanLine(st, line) ==
  LET text == TrimSpace(line)
      pieces == SplitN2(text, "=")
      key == TrimSpace(pieces[1])
      value == TrimSpace(pieces[2])
  IN IF Len(text) = 0 THEN st
     ELSE IF text[1] = "#" THEN st
     ELSE IF Len(pieces) # 2 THEN [st EXCEPT !.err = "malformed line"]
     ELSE IF key = KeyAlbumName
       THEN IF Len(st.albumName) > 0
              THEN LET r == loadAlbum(st.albums, st.albumName, st.albumDir,
                                      st.albumSubDir, st.albumFile, st.albumTags)
                   IN IF r.err # "" THEN [st EXCEPT !.err = r.err]
                      ELSE [st EXCEPT !.albums = r.albums, !.albumName = value]
              ELSE [st EXCEPT !.albumName = value]
     ELSE IF key = KeyAlbumDir THEN [st EXCEPT !.albumDir = value]
     ELSE IF key = KeyAlbumSubDir THEN [st EXCEPT !.albumSubDir = value]
     ELSE IF key = KeyAlbumFile THEN [st EXCEPT !.albumFile = value]
     ELSE IF key = KeyAlbumTags THEN [st EXCEPT !.albumTags = value]
     ELSE [st EXCEPT !.err = "unexpected line in file"]

\* The scan loop of Gallery.load: it returns at the first error.
RECURSIVE GalleryScanLoop(_, _)
GalleryScanLoop(st, lines) ==
  IF lines = <<>> \/ st.err # "" THEN st
  ELSE GalleryScanLoop(GalleryScanLine(st, Head(lines)), Tail(lines))

\* Gallery.load on a file of the given lines: [err, albums].  The file
\* opens, scans and closes without error.
GalleryLoadResult(file) ==
  LET st == GalleryScanLoop([albumName |-> <<>>, albumSubDir |-> <<>>,
                             albumDir |-> <<>>, albumFile |-> <<>>,
                             albumTags |-> <<>>, albums |-> <<>>, err |-> ""],
                            file)
  IN IF st.err # "" THEN [err |-> st.err, albums |-> st.albums]
     ELSE loadAlbum(st.albums, st.albumName, st.albumDir, st.albumSubDir,
                    st.albumFile, st.albumTags)

(***************************************************************************)
(* State.                                                                  *)
(***************************************************************************)
VARIABLES
  albumFile,  \* the lines of the album file a.File
  a,          \* the Album: Tags, PageSize, Workers, ForceGenerateImages,
              \* ForceGenerateHTML, images, chosenImages
  heap,       \* the Image structs allocated so far; a *Image is an index
  disk,       \* image files of the install directory: path -> file
  html,       \* HTML files of the install directory: name -> page
  pc,         \* where the goroutine running Install is
  run,        \* how many times Install was called
  sendIdx,    \* GenerateImages: the chosen image the dispatcher sends next
  chClosed,   \* GenerateImages: ch is closed
  wgCount,    \* GenerateImages: wg's counter
  wgWaiters,  \* GenerateImages: wg's waiter count
  wgSema,     \* GenerateImages: wg's semaphore
  workers,    \* GenerateImages: the goroutines started, id -> [pc, k]
  poolRun,    \* the run whose GenerateImages was started last
  diskBefore, \* disk as GenerateImages found it
  received,   \* chosen images (by number) a worker has received
  returned,   \* chosen images whose makeImages call has returned
  invoked,    \* <<chosen image, kind>> for which the transform was called
  logged,     \* chosen images whose makeImages error was logged
  htmlCalls,  \* the page calls of the last GenerateHTML, in order
  htmlAlbums, \* Gallery.Install: the HTMLAlbum entries collected so far
  g           \* the Gallery: its file, g.albums, and where Install is

vars == << albumFile, a, heap, disk, html, pc, run, sendIdx, chClosed, wgCount,
           wgWaiters, wgSema, workers, poolRun, diskBefore, received, returned, invoked,
           logged, htmlCalls, htmlAlbums, g >>

poolVars == << sendIdx, chClosed, wgCount, wgWaiters, wgSema, workers >>
histVars == << poolRun, diskBefore, received, returned, invoked, logged >>

\* Album files: every sequence of up to n distinct blocks (filenames are
\* unique within an album).
AlbumFilesOf(blocks, n) ==
  { f \in SeqsUpTo(blocks, n) : \A j, k \in 1..Len(f) : j # k => f[j] # f[k] }

AlbumFiles(n) == AlbumFilesOf(Blocks, n)

\* The lines of one block in the format ParseAlbumFile documents: the
\* filename, the description if there is one, the tag line if there are
\* tags, and a blank line.
FormatBlock(b) ==
  << b.Filename >>
    \o (IF Len(b.Description) > 0 THEN << b.Description >> ELSE <<>>)
    \o (IF Len(b.Tags) > 0
          THEN << TagPrefix \o Join(b.Tags, <<",", " ">>) >>
          ELSE <<>>)
    \o << <<>> >>

\* The lines of an album file holding the given blocks in that format.
RECURSIVE FormatAlbumFile(_)
FormatAlbumFile(blocks) ==
  IF blocks = <<>> THEN <<>>
  ELSE FormatBlock(Head(blocks)) \o FormatAlbumFile(Tail(blocks))

FormattedFiles(n) == { FormatAlbumFile(f) : f \in AlbumFiles(n) }

\* addimages, writeAlbumFile: the lines written for one image.
writeImage(image) ==
  << image.Filename >>
    \o (IF Len(image.Description) > 0 THEN << image.Description >> ELSE <<>>)
    \o (IF Len(image.Tags) > 0
          THEN << Join(image.Tags, <<",", " ">>) >>
          ELSE <<>>)
    \o << <<>> >>

\* addimages, writeAlbumFile: the lines of the file written for `images`.
RECURSIVE writeAlbumFile(_)
writeAlbumFile(images) ==
  IF images = <<>> THEN <<>>
  ELSE writeImage(Head(images)) \o writeAlbumFile(Tail(images))

\* The order of bytes among the characters of the filenames here.
ByteOrder == << ".", "a", "b", "g", "j", "p" >>
Ord(c) == CHOOSE k \in 1..Len(ByteOrder) : ByteOrder[k] = c

\* s < t on strings, as Go compares them.
RECURSIVE StringLess(_, _)
StringLess(s, t) ==
  IF t = <<>> THEN FALSE
  ELSE IF s = <<>> THEN TRUE
  ELSE IF Head(s) # Head(t) THEN Ord(Head(s)) < Ord(Head(t))
  ELSE StringLess(Tail(s), Tail(t))

\* addimages, main: the images of the two parsed album files after
\* sort.Sort(ByFilename(allImages)).
AddImagesRecords ==
  { [Filename |-> f, Description |-> d, Tags |-> t] :
      f \in { NameA, NameB },
      d \in { <<>>, DescDog },
      t \in { <<>>, <<TagX>>, <<TagX, TagY>> } }

SortedImages(n) ==
  { rs \in SeqsUpTo(AddImagesRecords, n) :
      \A j, k \in 1..Len(rs) :
        j < k => ~StringLess(rs[k].Filename, rs[j].Filename) }

\* The sizes the commands give every album.
StandardSizes ==
  { [ThumbnailSize |-> ThumbnailSize, LargeImageSize |-> LargeImageSize] }

\* A caller of the package giving the large image the thumbnail's size.
EqualSizes ==
  { [ThumbnailSize |-> ThumbnailSize, LargeImageSize |-> ThumbnailSize] }

\* The Album as its caller built it, with the configuration among the
\* given values.
Configured(tagLists, workerCounts, pageSizes, forceImages, forceHTML, sizes) ==
  \E sz \in sizes :
    a \in [Tags : tagLists, PageSize : pageSizes, Workers : workerCounts,
           ForceGenerateImages : forceImages, ForceGenerateHTML : forceHTML,
           ThumbnailSize : { sz.ThumbnailSize },
           LargeImageSize : { sz.LargeImageSize },
           images : { <<>> }, chosenImages : { <<>> }]

\* No call has been made on the Album.
NoAlbumCalls ==
  /\ pc = "idle"
  /\ run = 0
  /\ sendIdx = 1
  /\ chClosed = FALSE
  /\ wgCount = 0
  /\ wgWaiters = 0
  /\ wgSema = 0
  /\ workers = EmptyMap
  /\ poolRun = 0
  /\ diskBefore = EmptyMap
  /\ received = {}
  /\ returned = {}
  /\ invoked = {}
  /\ logged = {}
  /\ htmlCalls = <<>>
  /\ htmlAlbums = <<>>

\* The Album is built by makealbum: there is no gallery file.
NoGallery ==
  [File |-> <<>>, blocks |-> <<>>, albums |-> <<>>, pc |-> "none",
   err |-> "", calls |-> <<>>]

\* No call has been made on the Album, and there is no Gallery.
NoCalls == NoAlbumCalls /\ g = NoGallery

\* Nothing is installed and no call has been made.
Unstarted ==
  /\ disk = EmptyMap
  /\ html = EmptyMap
  /\ NoCalls

\* The state after the caller built the Album, with the album file among
\* `files` and the configuration among the given values: nothing is loaded
\* or installed.
InitWith(files, tagLists, workerCounts, pageSizes, forceImages, forceHTML, sizes) ==
  /\ albumFile \in files
  /\ heap = <<>>
  /\ Configured(tagLists, workerCounts, pageSizes, forceImages, forceHTML, sizes)
  /\ Unstarted

\* Every worker count and both image force flags, one page size.
InitPool ==
  InitWith(FormattedFiles(MaxPoolImages), PoolTagLists, 1..MaxWorkers, { 1 },
           BOOLEAN, { FALSE }, StandardSizes)

\* Every page size and both HTML force flags, one worker.
InitPages ==
  InitWith(FormattedFiles(MaxImages), TagLists, { 1 }, 1..MaxPageSize,
           { FALSE }, BOOLEAN, StandardSizes)

Init == InitPool \/ InitPages

(***************************************************************************)
(* Album.Install, the goroutine that calls it.                             *)
(*                                                                         *)
(* The album has IncludeOriginals and IncludeZip off, so Install returns   *)
(* after GenerateHTML.  The filesystem works: opening the album file,      *)
(* making the install directory, stat and writing HTML do not fail.  The   *)
(* only failures are those of makeImages.                                  *)
(***************************************************************************)
\* Install is called, and runs a.load(): the file is parsed into new Image
\* structs and a.images points at them; an error of the parse is returned.
Install ==
  /\ pc = "idle"
  /\ run < MaxRuns
  /\ run' = run + 1
  /\ LET r == ParseAlbumFile(albumFile)
         images == LoadedImages(a, r.images)
     IN IF r.err
          THEN pc' = "idle" /\ UNCHANGED << a, heap >>
          ELSE /\ heap' = heap \o images
               /\ a' = [a EXCEPT !.images = [k \in 1..Len(images) |-> Len(heap) + k]]
               /\ pc' = "ChooseImages"
  /\ UNCHANGED << g, albumFile, htmlAlbums, disk, html, poolVars, histVars, htmlCalls >>

\* a.ChooseImages()
ChooseImages ==
  /\ pc = "ChooseImages"
  /\ a' = [a EXCEPT !.chosenImages = ChooseImagesResult(heap, a)]
  /\ pc' = "GenerateImages"
  /\ UNCHANGED << g, albumFile, htmlAlbums, heap, disk, html, run, poolVars, histVars, htmlCalls >>

\* a.GenerateImages() up to its dispatch loop: ch and wg are made and
\* a.Workers goroutines are started; none has run yet.
GenerateImages ==
  /\ pc = "GenerateImages"
  /\ sendIdx' = 1
  /\ chClosed' = FALSE
  /\ wgCount' = 0
  /\ wgWaiters' = 0
  /\ wgSema' = 0
  /\ workers' = [w \in 1..a.Workers |-> [pc |-> "start", k |-> 0]]
  /\ poolRun' = run
  /\ diskBefore' = disk
  /\ received' = {}
  /\ returned' = {}
  /\ invoked' = {}
  /\ logged' = {}
  /\ pc' = IF Len(a.chosenImages) = 0 THEN "close" ELSE "send"
  /\ UNCHANGED << g, albumFile, htmlAlbums, a, heap, disk, html, run, htmlCalls >>

\* close(ch)
Close ==
  /\ pc = "close"
  /\ chClosed' = TRUE
  /\ pc' = "wait"
  /\ UNCHANGED << g, albumFile, htmlAlbums, a, heap, disk, html, run, sendIdx, wgCount,
                  wgWaiters, wgSema, workers, histVars, htmlCalls >>

\* WaitReturnsAtOnce with no wait at all.
WaitReturnsAtOnce_Always(count) == TRUE

\* wg.Wait() returns at once when it reads this counter.
WaitReturnsAtOnce(count) == count = 0

\* wg.Wait(): it returns when the counter is zero, and otherwise registers
\* as a waiter and blocks on the semaphore.
Wait ==
  /\ pc = "wait"
  /\ IF WaitReturnsAtOnce(wgCount)
       THEN pc' = "GenerateHTML" /\ UNCHANGED wgWaiters
       ELSE pc' = "blocked" /\ wgWaiters' = wgWaiters + 1
  /\ UNCHANGED << g, albumFile, htmlAlbums, a, heap, disk, html, run, sendIdx, chClosed,
                  wgCount, wgSema, workers, histVars, htmlCalls >>

\* wg.Wait() is woken by the semaphore.  sync.WaitGroup panics ("WaitGroup
\* is reused before previous Wait has returned") when its state is no
\* longer zero, which an Add racing with the wake-up causes.
WaitWake ==
  /\ pc = "blocked"
  /\ wgSema > 0
  /\ wgSema' = wgSema - 1
  /\ pc' = IF wgCount # 0 \/ wgWaiters # 0 THEN "panic" ELSE "GenerateHTML"
  /\ UNCHANGED << g, albumFile, htmlAlbums, a, heap, disk, html, run, sendIdx, chClosed,
                  wgCount, wgWaiters, workers, histVars, htmlCalls >>

\* a.GenerateHTML(), and the return of Install.
GenerateHTML ==
  /\ pc = "GenerateHTML"
  /\ LET r == GenerateHTMLResult(html, heap, a, run)
     IN html' = r.files /\ htmlCalls' = r.calls
  /\ pc' = "idle"
  /\ UNCHANGED << g, albumFile, htmlAlbums, a, heap, disk, run, poolVars, histVars >>

(***************************************************************************)
(* The goroutines of GenerateImages.                                       *)
(***************************************************************************)
Alive == pc # "panic"

\* wg.Add(1), the goroutine's first statement.  sync.WaitGroup panics
\* ("Add called concurrently with Wait") when the counter leaves zero while
\* a waiter is registered.
WorkerAdd(w) ==
  /\ Alive
  /\ workers[w].pc = "start"
  /\ wgCount' = wgCount + 1
  /\ IF wgWaiters # 0 /\ wgCount + 1 = 1
       THEN pc' = "panic" /\ UNCHANGED workers
       ELSE pc' = pc /\ workers' = [workers EXCEPT ![w].pc = "range"]
  /\ UNCHANGED << g, albumFile, htmlAlbums, a, heap, disk, html, run, sendIdx, chClosed,
                  wgWaiters, wgSema, histVars, htmlCalls >>

\* NextToSend offering the same image again.
NextToSend_Same(idx) == idx

\* The image the dispatcher's range loop offers after chosen image idx.
NextToSend(idx) == idx + 1

\* `ch <- image` meets `for image := range ch`: ch is unbuffered, so the
\* dispatcher's send and one worker's receive are one step.
WorkerReceive(w) ==
  /\ Alive
  /\ pc = "send"
  /\ workers[w].pc = "range"
  /\ workers' = [workers EXCEPT ![w] = [pc |-> "makeThumbnail", k |-> sendIdx]]
  /\ received' = received \cup { sendIdx }
  /\ sendIdx' = NextToSend(sendIdx)
  /\ pc' = IF NextToSend(sendIdx) > Len(a.chosenImages) THEN "close" ELSE "send"
  /\ UNCHANGED << g, albumFile, htmlAlbums, a, heap, disk, html, run, chClosed, wgCount,
                  wgWaiters, wgSema, poolRun, diskBefore, returned, invoked,
                  logged, htmlCalls >>

\* makeImages, first step: i.makeThumbnail.  An error ends makeImages and
\* is logged by the worker.
WorkerThumbnail(w) ==
  /\ Alive
  /\ workers[w].pc = "makeThumbnail"
  /\ LET k == workers[w].k
         p == a.chosenImages[k]
         r == makeThumbnail(heap[p], disk, InstallDir, a.ForceGenerateImages, run)
     IN /\ heap' = [heap EXCEPT ![p] = r.image]
        /\ disk' = r.disk
        /\ invoked' = IF r.invoked THEN invoked \cup { <<k, "thumb">> } ELSE invoked
        /\ IF ThumbnailErrorReturns(r.err)
             THEN /\ logged' = logged \cup { k }
                  /\ returned' = returned \cup { k }
                  /\ workers' = [workers EXCEPT ![w] = [pc |-> "range", k |-> 0]]
             ELSE /\ UNCHANGED << logged, returned >>
                  /\ workers' = [workers EXCEPT ![w].pc = "makeLargeImage"]
  /\ UNCHANGED << g, albumFile, htmlAlbums, a, html, pc, run, sendIdx, chClosed, wgCount,
                  wgWaiters, wgSema, poolRun, diskBefore, received, htmlCalls >>

\* makeImages, second step: i.makeLargeImage.
WorkerLargeImage(w) ==
  /\ Alive
  /\ workers[w].pc = "makeLargeImage"
  /\ LET k == workers[w].k
         p == a.chosenImages[k]
         r == makeLargeImage(heap[p], disk, InstallDir, a.ForceGenerateImages, run)
     IN /\ heap' = [heap EXCEPT ![p] = r.image]
        /\ disk' = r.disk
        /\ invoked' = IF r.invoked THEN invoked \cup { <<k, "large">> } ELSE invoked
        /\ logged' = IF r.err THEN logged \cup { k } ELSE logged
        /\ returned' = returned \cup { k }
        /\ workers' = [workers EXCEPT ![w] = [pc |-> "range", k |-> 0]]
  /\ UNCHANGED << g, albumFile, htmlAlbums, a, html, pc, run, sendIdx, chClosed, wgCount,
                  wgWaiters, wgSema, poolRun, diskBefore, received, htmlCalls >>

\* The range loop ends on the closed channel, and the deferred wg.Done()
\* takes one from the counter.  The goroutine that brings it to zero with a
\* waiter registered goes on to release the waiter.
WorkerDone(w) ==
  /\ Alive
  /\ workers[w].pc = "range"
  /\ chClosed
  /\ wgCount' = wgCount - 1
  /\ workers' = [workers EXCEPT ![w].pc =
                   IF wgCount - 1 > 0 \/ wgWaiters = 0 THEN "exited" ELSE "release"]
  /\ UNCHANGED << g, albumFile, htmlAlbums, a, heap, disk, html, pc, run, sendIdx, chClosed,
                  wgWaiters, wgSema, histVars, htmlCalls >>

\* wg.Done() releases the waiter.  sync.WaitGroup panics ("Add called
\* concurrently with Wait") when the state changed since the counter
\* reached zero.
WorkerRelease(w) ==
  /\ Alive
  /\ workers[w].pc = "release"
  /\ IF wgCount # 0
       THEN pc' = "panic" /\ UNCHANGED << wgWaiters, wgSema, workers >>
       ELSE /\ wgWaiters' = 0
            /\ wgSema' = wgSema + wgWaiters
            /\ workers' = [workers EXCEPT ![w].pc = "exited"]
            /\ pc' = pc
  /\ UNCHANGED << g, albumFile, htmlAlbums, a, heap, disk, html, run, sendIdx, chClosed,
                  wgCount, histVars, htmlCalls >>

(***************************************************************************)
(* Gallery.Install around the album: after album.Install() has returned it *)
(* takes the album's thumbnail and writes the gallery page.                *)
(***************************************************************************)
\* The HTMLAlbum of the loop of Gallery.Install, with album.GetThumb():
\* rand.Int() % len(a.chosenImages) panics (integer divide by zero) when no
\* image is chosen, and is any index otherwise.
GetThumb ==
  /\ pc = "idle"
  /\ run > 0
  /\ IF Len(a.chosenImages) = 0
       THEN pc' = "panic" /\ UNCHANGED htmlAlbums
       ELSE \E i \in 0..(Len(a.chosenImages) - 1) :
              /\ htmlAlbums' =
                   Append(htmlAlbums,
                          [URL |-> PathJoin(InstallSubDir, <<"index.html">>),
                           ThumbURL |->
                             PathJoin(InstallSubDir,
                                      heap[a.chosenImages[i + 1]].ThumbnailFilename)])
              /\ pc' = "makeGalleryHTML"
  /\ UNCHANGED << g, albumFile, a, heap, disk, html, run, poolVars, histVars,
                  htmlCalls >>

\* makeGalleryHTML(...), and the return of Gallery.Install.
MakeGalleryHTML ==
  /\ pc = "makeGalleryHTML"
  /\ html' = makeGalleryHTML(html, htmlAlbums, a.ForceGenerateHTML, run).files
  /\ htmlAlbums' = <<>>
  /\ pc' = "idle"
  /\ UNCHANGED << g, albumFile, a, heap, disk, run, poolVars, histVars, htmlCalls >>

Next ==
  \/ Install
  \/ ChooseImages
  \/ GenerateImages
  \/ Close
  \/ Wait
  \/ WaitWake
  \/ GenerateHTML
  \/ \E w \in DOMAIN workers : WorkerAdd(w)
  \/ \E w \in DOMAIN workers : WorkerReceive(w)
  \/ \E w \in DOMAIN workers : WorkerThumbnail(w)
  \/ \E w \in DOMAIN workers : WorkerLargeImage(w)
  \/ \E w \in DOMAIN workers : WorkerDone(w)
  \/ \E w \in DOMAIN workers : WorkerRelease(w)

Spec == Init /\ [][Next]_vars

\* The worker pool under every interleaving.
SpecPool == InitPool /\ [][Next]_vars

\* Pagination and page rendering.
SpecPages == InitPages /\ [][Next]_vars

\* Every worker count, both sizes settings and both image force flags, over
\* the album files that try the derived names.
InitNames ==
  InitWith({ FormatAlbumFile(f) : f \in AlbumFilesOf(NameBlocks, MaxPoolImages) },
           { <<>> }, 1..MaxWorkers, { 1 }, BOOLEAN, { FALSE },
           StandardSizes \cup EqualSizes)

SpecNames == InitNames /\ [][Next]_vars

\* The album file is any lines, or is written in the documented format
\* from images held in memory (the heap); one configuration.
InitParse ==
  /\ \/ /\ albumFile \in SeqsUpTo(ParseLines, MaxLines)
        /\ heap = <<>>
     \/ /\ heap \in { [k \in 1..Len(rs) |->
                          NewImage(rs[k].Filename, rs[k].Description, rs[k].Tags)] :
                       rs \in SeqsUpTo(RoundTripImages, MaxRecords) }
        /\ albumFile = FormatAlbumFile(heap)
  /\ Configured({ <<>> }, { 1 }, { 1 }, { FALSE }, { FALSE }, StandardSizes)
  /\ Unstarted

\* ParseAlbumFile on its own: Install up to the return of a.load().
SpecParse == InitParse /\ [][Install]_vars

\* addimages has written the merged images (held in the heap) to the
\* output file, which is then given to an album; one configuration.
InitAddImages ==
  /\ heap \in { [k \in 1..Len(rs) |->
                   NewImage(rs[k].Filename, rs[k].Description, rs[k].Tags)] :
                rs \in SortedImages(MaxRecords) }
  /\ albumFile = writeAlbumFile(heap)
  /\ Configured({ <<>> }, { 1 }, { 1 }, { FALSE }, { FALSE }, StandardSizes)
  /\ Unstarted

SpecAddImages == InitAddImages /\ [][Install]_vars

\* Album.Install as Gallery.Install calls it.
GalleryNext == Next \/ GetThumb \/ MakeGalleryHTML

\* One worker, one page size, both HTML force flags.
InitGallery ==
  InitWith(FormattedFiles(MaxPoolImages), TagLists, { 1 }, { 1 }, { FALSE },
           BOOLEAN, StandardSizes)

SpecGallery == InitGallery /\ [][GalleryNext]_vars

\* Between two installations the album file is edited (by hand, or by
\* addimages): images are added, removed or inserted.
EditAlbumFile ==
  /\ pc = "idle"
  /\ run > 0
  /\ run < MaxRuns
  /\ albumFile' \in FormattedFiles(MaxPoolImages) \ { albumFile }
  /\ UNCHANGED << g, htmlAlbums, a, heap, disk, html, pc, run, poolVars, histVars,
                  htmlCalls >>

EditedNext == Next \/ EditAlbumFile

\* No wanted tags, one worker, page size 1, force flags off.
InitEdited ==
  InitWith(FormattedFiles(MaxPoolImages), { <<>> }, { 1 }, { 1 }, { FALSE },
           { FALSE }, StandardSizes)

\* Installations into one install directory, the album file changing
\* between them.
SpecEdited == InitEdited /\ [][EditedNext]_vars

\* The process is gone and the command is started again: the Album is
\* built anew, and only the files remain.
Restarted ==
  /\ a' = [a EXCEPT !.images = <<>>, !.chosenImages = <<>>]
  /\ heap' = <<>>
  /\ pc' = "idle"
  /\ sendIdx' = 1
  /\ chClosed' = FALSE
  /\ wgCount' = 0
  /\ wgWaiters' = 0
  /\ wgSema' = 0
  /\ workers' = EmptyMap
  /\ poolRun' = 0
  /\ diskBefore' = EmptyMap
  /\ received' = {}
  /\ returned' = {}
  /\ invoked' = {}
  /\ logged' = {}
  /\ htmlCalls' = <<>>
  /\ UNCHANGED << g, albumFile, htmlAlbums, run >>

\* A file whose writing was cut short: created, and holding only a part
\* of what the complete file holds.
Partial(file) == [file EXCEPT !.kind = "partial"]

\* Install is interrupted (the process is killed) between two of its file
\* writes.
Interrupt ==
  /\ pc \in { "ChooseImages", "GenerateImages", "send", "close", "wait", "blocked" }
  /\ Restarted
  /\ UNCHANGED << disk, html >>

\* Install is interrupted while worker w is inside image.ToFile(resizeFile):
\* the file is created and not complete.
InterruptResize(w) ==
  /\ Alive
  /\ workers[w].pc \in { "makeThumbnail", "makeLargeImage" }
  /\ LET p == a.chosenImages[workers[w].k]
         thumb == workers[w].pc = "makeThumbnail"
         r == IF thumb
                THEN makeThumbnail(heap[p], disk, InstallDir, a.ForceGenerateImages, run)
                ELSE makeLargeImage(heap[p], disk, InstallDir, a.ForceGenerateImages, run)
         resizeFile == IF thumb THEN r.image.ThumbnailPath ELSE r.image.LargeImagePath
     IN /\ r.invoked
        /\ ~r.err
        /\ disk' = [r.disk EXCEPT ![resizeFile] = Partial(@)]
  /\ Restarted
  /\ UNCHANGED html

\* Install is interrupted inside GenerateHTML: the first j page calls have
\* returned, and the process is killed in the next one, either before
\* os.Create(htmlPath) or after it and before the template is written out.
InterruptHTML ==
  /\ pc = "GenerateHTML"
  /\ LET r == GenerateHTMLResult(html, heap, a, run)
     IN \E j \in 0..(Len(r.calls) - 1), created \in BOOLEAN :
          LET done == { r.calls[c].file : c \in { c \in 1..j : r.calls[c].wrote } }
              next == r.calls[j + 1]
              cut == IF created /\ next.wrote THEN { next.file } ELSE {}
          IN html' = [f \in DOMAIN html \cup done \cup cut |->
                        IF f \in cut THEN Partial(r.files[f])
                        ELSE IF f \in done THEN r.files[f]
                        ELSE html[f]]
  /\ Restarted
  /\ UNCHANGED disk

RerunNext ==
  \/ Next
  \/ Interrupt
  \/ \E w \in DOMAIN workers : InterruptResize(w)
  \/ InterruptHTML

\* No wanted tags, one worker, every page size, force flags off.
InitRerun ==
  InitWith(FormattedFiles(MaxPoolImages), { <<>> }, { 1 }, 1..MaxPageSize,
           { FALSE }, { FALSE }, StandardSizes)

\* Installations that can be interrupted and run again.
SpecRerun == InitRerun /\ [][RerunNext]_vars

(***************************************************************************)
(* Gallery.Install, on a gallery file of several album blocks.  What       *)
(* album.Install() does inside the album's directory is the pipeline       *)
(* above; here it is its return: the error of a.load() when the album file *)
(* cannot be opened, nil otherwise.                                        *)
(***************************************************************************)
\* A line `key = value` of the gallery file.
GalleryLine(key, value) == key \o <<" ", "=", " ">> \o value

\* The lines of one block: the album-name line, and the line of every key
\* the block has.
GalleryBlockLines(b) ==
  << GalleryLine(KeyAlbumName, b.Name) >>
    \o (IF b.Dir # <<>> THEN << GalleryLine(KeyAlbumDir, b.Dir) >> ELSE <<>>)
    \o (IF b.SubDir # <<>> THEN << GalleryLine(KeyAlbumSubDir, b.SubDir) >> ELSE <<>>)
    \o (IF b.File # <<>> THEN << GalleryLine(KeyAlbumFile, b.File) >> ELSE <<>>)
    \o (IF b.Tags # <<>> THEN << GalleryLine(KeyAlbumTags, b.Tags) >> ELSE <<>>)
    \o << <<>> >>

RECURSIVE GalleryFileOf(_)
GalleryFileOf(blocks) ==
  IF blocks = <<>> THEN <<>>
  ELSE GalleryBlockLines(Head(blocks)) \o GalleryFileOf(Tail(blocks))

\* The lines of the album file of this name.
AlbumFileContent(file) ==
  IF file = AlbumFileA
    THEN FormatAlbumFile(<< [Filename |-> NameA, Description |-> <<>>,
                             Tags |-> <<TagX>>] >>)
    ELSE FormatAlbumFile(<< [Filename |-> NameB, Description |-> <<>>,
                             Tags |-> <<TagY>>] >>)

\* The chosen images of a gallery album after its Install: parsed, loaded
\* and chosen by its tags, each with the thumbnail makeThumbnail names.
GalleryChosen(album) ==
  LET images == LoadedImages(a, ParseAlbumFile(AlbumFileContent(album.File)).images)
      alb == [a EXCEPT !.Tags = album.Tags,
                       !.images = [k \in 1..Len(images) |-> k],
                       !.chosenImages = <<>>]
      chosen == ChooseImagesResult(images, alb)
  IN [k \in 1..Len(chosen) |->
        makeThumbnail(images[chosen[k]], EmptyMap, album.InstallDir, FALSE, 1).image]

\* InstallErrorReturns with the error of album.Install() dropped.
InstallErrorReturns_Never(err) == FALSE

\* Whether Gallery.Install returns after album.Install(), with its error.
InstallErrorReturns(err) == err

\* g.load(g.File), and the return of Gallery.Install on its error.
GalleryLoad ==
  /\ g.pc = "idle"
  /\ LET r == GalleryLoadResult(g.File)
     IN g' = [g EXCEPT !.albums = r.albums,
                       !.err = r.err,
                       !.pc = IF r.err # "" THEN "failed" ELSE "albums"]
  /\ UNCHANGED << albumFile, htmlAlbums, a, heap, disk, html, pc, run, poolVars,
                  histVars, htmlCalls >>

\* One iteration of the loop over g.albums: album.Install(), the return
\* of Gallery.Install on its error, and otherwise the HTMLAlbum with
\* album.GetThumb(), which panics (integer divide by zero) when the
\* album has no chosen image.
GalleryInstallAlbum ==
  /\ g.pc = "albums"
  /\ Len(g.calls) < Len(g.albums)
  /\ LET k == Len(g.calls) + 1
         album == g.albums[k]
         err == album.File = MissingFile
         chosen == GalleryChosen(album)
     IN IF InstallErrorReturns(err)
          THEN /\ g' = [g EXCEPT !.calls = Append(@, k), !.pc = "failed",
                                 !.err = "unable to install album"]
               /\ UNCHANGED htmlAlbums
          ELSE IF err \/ Len(chosen) = 0
            THEN /\ g' = [g EXCEPT !.calls = Append(@, k), !.pc = "panic"]
                 /\ UNCHANGED htmlAlbums
          ELSE \E i \in 1..Len(chosen) :
                 /\ g' = [g EXCEPT !.calls = Append(@, k)]
                 /\ htmlAlbums' =
                      Append(htmlAlbums,
                             [URL |-> PathJoin(album.InstallSubDir, <<"index.html">>),
                              ThumbURL |-> PathJoin(album.InstallSubDir,
                                                    chosen[i].ThumbnailFilename)])
  /\ UNCHANGED << albumFile, a, heap, disk, html, pc, run, poolVars, histVars,
                  htmlCalls >>

\* makeGalleryHTML(...) after the loop, and the return of Gallery.Install.
GalleryMakeHTML ==
  /\ g.pc = "albums"
  /\ Len(g.calls) = Len(g.albums)
  /\ html' = makeGalleryHTML(html, htmlAlbums, a.ForceGenerateHTML, 1).files
  /\ g' = [g EXCEPT !.pc = "done"]
  /\ UNCHANGED << albumFile, htmlAlbums, a, heap, disk, pc, run, poolVars,
                  histVars, htmlCalls >>

GalleryFileNext == GalleryLoad \/ GalleryInstallAlbum \/ GalleryMakeHTML

\* The Gallery as makegallery built it, its file holding up to MaxAlbums
\* blocks; nothing is loaded or installed.
InitGalleryFile ==
  /\ \E blocks \in SeqsUpTo(GalleryBlocks, MaxAlbums) :
       g = [File |-> GalleryFileOf(blocks), blocks |-> blocks, albums |-> <<>>,
            pc |-> "idle", err |-> "", calls |-> <<>>]
  /\ albumFile = <<>>
  /\ heap = <<>>
  /\ Configured({ <<>> }, { 1 }, { 1 }, { FALSE }, { FALSE }, StandardSizes)
  /\ disk = EmptyMap
  /\ html = EmptyMap
  /\ NoAlbumCalls

SpecGalleryFile == InitGalleryFile /\ [][GalleryFileNext]_vars

\* The image the album loads for a block with this filename.
LoadedImage(alb, filename) ==
  LoadedImages(alb, << NewImage(filename, <<>>, <<>>) >>)[1]

\* The large images of the sources `names`, written to the install
\* directory by an installation made before (time 0), when the image
\* library could open every source.
LeftoverLarge(alb, names) ==
  LET path(n) == getResizedFilename(LoadedImage(alb, n), InstallDir,
                                    alb.LargeImageSize, -1).path
  IN [p \in { path(n) : n \in names } |->
        DerivedFile(LoadedImage(alb, CHOOSE n \in names : path(n) = p),
                    "large", alb.LargeImageSize, 0)]

\* The install directory holds large images of an earlier installation
\* and no thumbnail; one worker, both image force flags.
InitLeftover ==
  /\ albumFile \in FormattedFiles(MaxPoolImages)
  /\ heap = <<>>
  /\ Configured({ <<>> }, { 1 }, { 1 }, BOOLEAN, { FALSE }, StandardSizes)
  /\ disk \in { LeftoverLarge(a, names) : names \in SUBSET { NameA, NameD } }
  /\ html = EmptyMap
  /\ NoCalls

SpecLeftover == InitLeftover /\ [][Next]_vars

(***************************************************************************)
(* Properties.                                                             *)
(***************************************************************************)
N == Len(a.chosenImages)
Chosen(k) == heap[a.chosenImages[k]]

\* GenerateImages of the current run has returned.
Resized == pc = "GenerateHTML"
\* Install has returned; htmlCalls are the page calls of that run.
Installed == pc = "idle" /\ run > 0

AlbumCalls == SelectSeq(htmlCalls, LAMBDA c : c.kind = "album")
ImageCalls == SelectSeq(htmlCalls, LAMBDA c : c.kind = "image")

\* ceil(n / p)
Ceil(n, p) == CHOOSE m \in 0..n : m * p >= n /\ (m = 0 \/ (m - 1) * p < n)

Min(x, y) == IF x < y THEN x ELSE y

ValidName(i) == Len(SelectSeq(i.Filename, LAMBDA c : c = ".")) = 1
ThumbPathOf(i) == getResizedFilename(i, InstallDir, i.ThumbnailSize, i.ThumbnailSize).path
LargePathOf(i) == getResizedFilename(i, InstallDir, i.LargeImageSize, -1).path
TargetOf(i, kind) == IF kind = "thumb" THEN ThumbPathOf(i) ELSE LargePathOf(i)

Busy == \E w \in DOMAIN workers : workers[w].pc \in { "makeThumbnail", "makeLargeImage" }

\* C1: no page is rendered before the resize work is complete: once
\* GenerateImages has returned, and whenever a page written by the current
\* run exists, every chosen image has been received by a worker, its
\* makeImages call has returned, and no worker is inside makeImages.
C1_PhaseBarrier ==
  (Resized \/ \E f \in DOMAIN html : html[f].mtime = run /\ run > 0)
    => /\ received = 1..N
       /\ returned = 1..N
       /\ ~Busy

C1_Witness ==
  /\ Resized
  /\ N >= 2
  /\ a.Workers >= 2
  /\ \E k \in 1..N : <<k, "large">> \in invoked
  /\ \E w \in DOMAIN workers : workers[w].pc = "start"

\* C2: a makeImages failure is only logged: when GenerateImages has
\* returned after logging a failure, every chosen image was attempted and
\* every image that did not fail has its derived files and fields; and when
\* Install has returned, an image page call was made and a page file exists
\* for every chosen image, the failed ones included, and every chosen image
\* is on exactly one album page call.
C2_FailureIsolated ==
  /\ (Resized /\ logged # {}) =>
       /\ returned = 1..N
       /\ \A k \in (1..N) \ logged :
            /\ Chosen(k).ThumbnailPath \in DOMAIN disk
            /\ Chosen(k).LargeImagePath \in DOMAIN disk
            /\ Chosen(k).ThumbnailFilename # <<>>
            /\ Chosen(k).LargeImageFilename # <<>>
  /\ (Installed /\ logged # {}) =>
       \A k \in 1..N :
         /\ \E c \in 1..Len(ImageCalls) : ImageCalls[c].index = k - 1
         /\ ImagePageFilename(k - 1) \in DOMAIN html
         /\ Cardinality({ <<c, j>> \in (1..Len(AlbumCalls)) \X (1..N) :
                            j <= Len(AlbumCalls[c].images)
                            /\ AlbumCalls[c].images[j].Index = k - 1 }) = 1

C2_Witness ==
  /\ Installed
  /\ N >= 2
  /\ \E k \in logged : html[ImagePageFilename(k - 1)].mtime = run
  /\ \E k \in (1..N) \ logged : Chosen(k).LargeImagePath \in DOMAIN disk

C4_ForceInvokesAll ==
  (Resized /\ a.ForceGenerateImages)
    => \A k \in 1..N : <<k, "thumb">> \in invoked /\ <<k, "large">> \in invoked

\* C4 amended: with force on, when GenerateImages has returned, the
\* thumbnail transform was invoked for exactly the chosen images whose
\* filename has one '.', whether or not the thumbnail existed, and the
\* large transform for exactly those of them whose thumbnail step succeeded.
C4_ForcedResize ==
  (Resized /\ a.ForceGenerateImages)
    => \A k \in 1..N :
         /\ <<k, "thumb">> \in invoked <=> ValidName(Chosen(k))
         /\ <<k, "large">> \in invoked <=>
              (ValidName(Chosen(k)) /\ TransformOK(Chosen(k)))

C4_Witness ==
  /\ Resized
  /\ a.ForceGenerateImages
  /\ \E k \in 1..N :
       /\ <<k, "thumb">> \in invoked /\ <<k, "large">> \in invoked
       /\ ThumbPathOf(Chosen(k)) \in DOMAIN diskBefore
       /\ LargePathOf(Chosen(k)) \in DOMAIN diskBefore

\* C5: GenerateHTML makes exactly ceil(N / PageSize) album page calls,
\* numbered 1, 2, ... in order; call k holds the chosen images with indices
\* (k-1)*PageSize .. min(k*PageSize, N) - 1 in order, so every chosen image
\* is on exactly one page; and a page file it writes holds those images and
\* that page count.
C5_Pagination ==
  Installed =>
    /\ Len(AlbumCalls) = Ceil(N, a.PageSize)
    /\ \A k \in 1..Len(AlbumCalls) :
         LET c == AlbumCalls[k]
             first == (k - 1) * a.PageSize
             last == Min(k * a.PageSize, N)
         IN /\ c.page = k
            /\ Len(c.images) = last - first
            /\ \A j \in 1..Len(c.images) :
                 /\ c.images[j].Index = first + j - 1
                 /\ c.images[j].OriginalImageURL = Chosen(first + j).Filename
            /\ c.wrote =>
                 /\ html[c.file].Images = c.images
                 /\ html[c.file].Page = k
                 /\ html[c.file].TotalPages = Ceil(N, a.PageSize)
    /\ \A i \in 1..N :
         Cardinality({ <<k, j>> \in (1..Len(AlbumCalls)) \X (1..N) :
                         j <= Len(AlbumCalls[k].images)
                         /\ AlbumCalls[k].images[j].Index = i - 1 }) = 1

C5_Witness ==
  /\ Installed
  /\ N = 3
  /\ a.PageSize = 2
  /\ Len(AlbumCalls) = 2
  /\ AlbumCalls[2].wrote
  /\ Len(html["page-2.html"].Images) = 1

\* C6: album page 1 is index.html and page k > 1 is page-k.html; a page
\* written by the run has no previous URL when it is page 1, index.html
\* when it is page 2, page-(k-1).html otherwise, and no next URL when it is
\* the last page, page-(k+1).html otherwise; each URL is the file name of
\* the adjacent page call of the same run, and that file exists.
C6_AlbumLinks ==
  Installed =>
    \A k \in 1..Len(AlbumCalls) :
      LET c == AlbumCalls[k]
      IN /\ c.file = (IF k = 1 THEN "index.html" ELSE "page-" \o ToString(k) \o ".html")
         /\ c.file \in DOMAIN html
         /\ c.wrote =>
              /\ html[c.file].PreviousURL =
                   (IF k = 1 THEN ""
                    ELSE IF k = 2 THEN "index.html"
                    ELSE "page-" \o ToString(k - 1) \o ".html")
              /\ html[c.file].NextURL =
                   (IF k = Len(AlbumCalls) THEN ""
                    ELSE "page-" \o ToString(k + 1) \o ".html")
              /\ k > 1 => /\ html[c.file].PreviousURL = AlbumCalls[k - 1].file
                          /\ html[c.file].PreviousURL \in DOMAIN html
              /\ k < Len(AlbumCalls) =>
                          /\ html[c.file].NextURL = AlbumCalls[k + 1].file
                          /\ html[c.file].NextURL \in DOMAIN html

C6_Witness ==
  /\ Installed
  /\ Len(AlbumCalls) = 3
  /\ \A k \in 1..3 : AlbumCalls[k].wrote
  /\ html["page-2.html"].PreviousURL = "index.html"
  /\ html["page-2.html"].NextURL = "page-3.html"
  /\ html["page-3.html"].PreviousURL = "page-2.html"

\* C7: the page of the chosen image with flat index K is image-K.html; when
\* the run writes it, it has a previous link, to image-(K-1).html, iff
\* K > 0, and a next link, to image-(K+1).html, iff K < N - 1, whatever the
\* page size; the linked files are those of the adjacent image page calls
\* and exist.
C7_ImageLinks ==
  Installed =>
    /\ Len(ImageCalls) = N
    /\ \A k \in 1..Len(ImageCalls) :
         LET c == ImageCalls[k]
             K == k - 1
         IN /\ c.index = K
            /\ c.file = "image-" \o ToString(K) \o ".html"
            /\ c.file \in DOMAIN html
            /\ c.wrote =>
                 /\ html[c.file].PreviousURL # "" <=> K > 0
                 /\ html[c.file].NextURL # "" <=> K < N - 1
                 /\ K > 0 => /\ html[c.file].PreviousURL = "image-" \o ToString(K - 1) \o ".html"
                             /\ html[c.file].PreviousURL = ImageCalls[k - 1].file
                 /\ K < N - 1 => /\ html[c.file].NextURL = "image-" \o ToString(K + 1) \o ".html"
                                 /\ html[c.file].NextURL = ImageCalls[k + 1].file
                                 /\ html[c.file].NextURL \in DOMAIN html

C7_Witness ==
  /\ Installed
  /\ N = 3
  /\ a.PageSize = 2
  /\ \A k \in 1..3 : ImageCalls[k].wrote
  /\ ImageCalls[2].page = 1 /\ ImageCalls[3].page = 2
  /\ html["image-1.html"].NextURL = "image-2.html"
  /\ html["image-2.html"].PreviousURL = "image-1.html"
  /\ html["image-2.html"].NextURL = ""

\* Whether image i has a tag equal to one of the wanted tags.
Wanted(i, tags) ==
  \E j \in 1..Len(i.Tags), t \in 1..Len(tags) : i.Tags[j] = tags[t]

\* C8: with wanted tags, the images ChooseImages leaves chosen are exactly
\* the parsed images having a tag equal to a wanted tag, in parsed order,
\* each once.
C8_TagFilter ==
  (pc = "GenerateImages" /\ Len(a.Tags) > 0)
    => a.chosenImages = SelectSeq(a.images, LAMBDA p : Wanted(heap[p], a.Tags))

\* C9: with no wanted tags, ChooseImages leaves chosen exactly the parsed
\* images: the same Image structs in the same order, one per block of the
\* album file with that block's filename, description and tags.
C9_NoTagsChoosesAll ==
  (pc = "GenerateImages" /\ Len(a.Tags) = 0)
    => /\ a.chosenImages = a.images
       /\ \E f \in AlbumFiles(MaxImages) :
            /\ albumFile = FormatAlbumFile(f)
            /\ N = Len(f)
            /\ \A k \in 1..N :
                 /\ Chosen(k).Filename = f[k].Filename
                 /\ Chosen(k).Description = f[k].Description
                 /\ Chosen(k).Tags = f[k].Tags

C9_Witness ==
  /\ pc = "GenerateImages"
  /\ Len(a.Tags) = 0
  /\ run = 2
  /\ N >= 2

RECURSIVE IsSubsequence(_, _)
IsSubsequence(s, t) ==
  IF s = <<>> THEN TRUE
  ELSE IF t = <<>> THEN FALSE
  ELSE IF Head(s) = Head(t) THEN IsSubsequence(Tail(s), Tail(t))
  ELSE IsSubsequence(s, Tail(t))

Filenames(ps) == [k \in 1..Len(ps) |-> heap[ps[k]].Filename]

\* C10: in every state, the filenames of chosenImages are a subsequence of
\* the filenames of images, in the same relative order.
C10_ChosenIsSubsequence ==
  IsSubsequence(Filenames(a.chosenImages), Filenames(a.images))

\* The part of a filename before its first '.', and the part after it.
DotAt(name) == CHOOSE k \in 1..Len(name) : name[k] = "."
BaseOf(name) == SubSeq(name, 1, DotAt(name) - 1)
ExtOf(name) == SubSeq(name, DotAt(name) + 1, Len(name))

\* base_T_T.ext and base_L.ext
ThumbNameOf(i) ==
  BaseOf(i.Filename) \o <<"_">> \o Itoa(i.ThumbnailSize) \o <<"_">>
    \o Itoa(i.ThumbnailSize) \o <<".">> \o ExtOf(i.Filename)
LargeNameOf(i) ==
  BaseOf(i.Filename) \o <<"_">> \o Itoa(i.LargeImageSize) \o <<".">>
    \o ExtOf(i.Filename)

\* C11: for an image whose filename has exactly one '.', the derived names
\* are base_T_T.ext (thumbnail) and base_L.ext (large), in the install
\* directory, and a derived field that is set holds that name; for a
\* filename with no '.' or several, computing either name fails, no field
\* of the image is set, no file is written from it, and once
\* GenerateImages has returned its failure was logged and no transform was
\* invoked for it.
C11_DerivedNames ==
  /\ \A p \in 1..Len(heap) :
       LET i == heap[p]
           t == getResizedFilename(i, InstallDir, i.ThumbnailSize, i.ThumbnailSize)
           l == getResizedFilename(i, InstallDir, i.LargeImageSize, -1)
       IN IF ValidName(i)
            THEN /\ ~t.err /\ t.path = InstallDir \o <<"/">> \o ThumbNameOf(i)
                 /\ ~l.err /\ l.path = InstallDir \o <<"/">> \o LargeNameOf(i)
                 /\ i.ThumbnailFilename \in { <<>>, ThumbNameOf(i) }
                 /\ i.LargeImageFilename \in { <<>>, LargeNameOf(i) }
                 /\ i.ThumbnailPath \in { <<>>, t.path }
                 /\ i.LargeImagePath \in { <<>>, l.path }
            ELSE /\ t.err /\ l.err
                 /\ i.ThumbnailFilename = <<>> /\ i.ThumbnailPath = <<>>
                 /\ i.LargeImageFilename = <<>> /\ i.LargeImagePath = <<>>
                 /\ \A f \in DOMAIN disk : disk[f].src # i.Path
  /\ Resized =>
       \A k \in 1..N :
         ~ValidName(Chosen(k)) =>
           /\ k \in logged
           /\ <<k, "thumb">> \notin invoked /\ <<k, "large">> \notin invoked

C11_Witness ==
  /\ Resized
  /\ N = 2
  /\ a.LargeImageSize = 600
  /\ \E k \in 1..N :
       /\ Chosen(k).Filename = NameD100
       /\ Chosen(k).ThumbnailFilename =
            <<"d", "_", "1", "0", "0", "_", "1", "0", "0", "_", "1", "0", "0",
              ".", "j", "p", "g">>
       /\ Chosen(k).LargeImageFilename =
            <<"d", "_", "1", "0", "0", "_", "6", "0", "0", ".", "j", "p", "g">>
       /\ Chosen(k).LargeImagePath \in DOMAIN disk
  /\ \E k \in 1..N : Chosen(k).Filename \in { NameE, NameC } /\ k \in logged

\* The file the worker w is about to write or look for.
WorkerTarget(w) ==
  TargetOf(Chosen(workers[w].k),
           IF workers[w].pc = "makeThumbnail" THEN "thumb" ELSE "large")

WorkerBusy(w) == workers[w].pc \in { "makeThumbnail", "makeLargeImage" }

\* C12: for any two chosen images with distinct filenames (each with one
\* '.'), the thumbnail and large paths of the two are four distinct paths,
\* and no two workers are at the same time inside makeImages on the same
\* output path.
C12_DistinctPaths ==
  /\ \A j, k \in 1..N :
       (/\ j < k
        /\ Chosen(j).Filename # Chosen(k).Filename
        /\ ValidName(Chosen(j)) /\ ValidName(Chosen(k)))
         => Cardinality({ ThumbPathOf(Chosen(j)), LargePathOf(Chosen(j)),
                          ThumbPathOf(Chosen(k)), LargePathOf(Chosen(k)) }) = 4
  /\ \A v, w \in DOMAIN workers :
       (/\ v # w /\ WorkerBusy(v) /\ WorkerBusy(w)
        /\ Chosen(workers[v].k).Filename # Chosen(workers[w].k).Filename
        /\ ValidName(Chosen(workers[v].k)) /\ ValidName(Chosen(workers[w].k)))
         => WorkerTarget(v) # WorkerTarget(w)

\* A chosen image as load left it, before any resize.
Unresized(i) ==
  [i EXCEPT !.ThumbnailPath = <<>>, !.ThumbnailFilename = <<>>,
            !.LargeImagePath = <<>>, !.LargeImageFilename = <<>>]

\* makeImages on the images one after the other, in order: [images, disk].
RECURSIVE OneAfterTheOther(_, _, _, _, _)
OneAfterTheOther(images, done, d, forceGenerate, now) ==
  IF images = <<>> THEN [images |-> done, disk |-> d]
  ELSE LET r == makeImages(Head(images), d, InstallDir, forceGenerate, now)
       IN OneAfterTheOther(Tail(images), Append(done, r.image), r.disk,
                           forceGenerate, now)

\* C13: when GenerateImages has returned, the set of derived files and
\* every chosen image's derived path and filename fields are those that
\* resizing the chosen images one after the other, from the same disk and
\* with the same force flag, leaves: whatever the number of workers and the
\* interleaving.
C13_OrderIndependent ==
  (Resized /\ Len(a.Tags) = 0) =>
    LET ref == OneAfterTheOther([k \in 1..N |-> Unresized(Chosen(k))], <<>>,
                                diskBefore, a.ForceGenerateImages, poolRun)
    IN /\ DOMAIN disk = DOMAIN ref.disk
       /\ \A k \in 1..N : Chosen(k) = ref.images[k]

\* C14: when GenerateImages has returned (and from then until the next
\* call), every worker goroutine it started has terminated: none has yet
\* to call wg.Add, is in its range loop, or is releasing the waiter.
C14_Join ==
  (pc \in { "GenerateHTML", "idle" } /\ poolRun = run /\ run > 0)
    => \A w \in DOMAIN workers : workers[w].pc = "exited"

\* ParseAlbumFile (in a.load()) has returned without error.
Loaded == run = 1 /\ pc = "ChooseImages"
\* The images it returned.
LoadedRecords == [k \in 1..Len(a.images) |-> heap[a.images[k]]]
\* The images the album file was written from.
WrittenRecords == SubSeq(heap, 1, Len(heap) - Len(a.images))

SameRecord(i, j) ==
  /\ i.Filename = j.Filename
  /\ i.Description = j.Description
  /\ i.Tags = j.Tags

RoundTrips ==
  /\ Loaded
  /\ Len(LoadedRecords) = Len(WrittenRecords)
  /\ \A k \in 1..Len(WrittenRecords) : SameRecord(LoadedRecords[k], WrittenRecords[k])

\* C15 as stated: images with non-empty filenames, descriptions not
\* beginning with "Tag: " and tags without commas, written in the format
\* and parsed, come back equal.
C15_RoundTrip ==
  (run = 1 /\ WrittenRecords # <<>>) => RoundTrips

\* A string the parser keeps as it is: not empty, no white space around
\* it, no leading '#'.
KeptAsIs(str) == str # <<>> /\ TrimSpace(str) = str /\ str[1] # "#"

CleanRecord(i) ==
  /\ KeptAsIs(i.Filename)
  /\ i.Description = <<>> \/ KeptAsIs(i.Description)
  /\ \A k \in 1..Len(i.Tags) : TrimSpace(i.Tags[k]) = i.Tags[k] /\ i.Tags[k] # <<>>

\* C15 amended: the round trip holds for images whose filename and
\* description have no white space around them and no leading '#', and
\* whose tags are non-empty with no white space around them.
C15_RoundTripClean ==
  (/\ run = 1
   /\ WrittenRecords # <<>>
   /\ \A k \in 1..Len(WrittenRecords) : CleanRecord(WrittenRecords[k]))
    => RoundTrips

C15_Witness ==
  /\ Loaded
  /\ Len(WrittenRecords) = 2
  /\ \A k \in 1..2 : CleanRecord(WrittenRecords[k])
  /\ WrittenRecords[1].Description = DescDog
  /\ WrittenRecords[1].Tags = <<TagX, TagY>>
  /\ WrittenRecords[2].Description = <<>>
  /\ Len(LoadedRecords) = 2
  /\ LoadedRecords[1].Tags = <<TagX, TagY>>

\* Of the lines of the file: blank, comment, starting with "Tag:".
IsBlank(text) == TrimSpace(text) = <<>>
IsComment(text) == ~IsBlank(text) /\ TrimSpace(text)[1] = "#"
StartsWithTag(text) == HasPrefix(text, <<"T", "a", "g", ":">>)

\* A file that is one block with no blank line and no comment: a filename
\* line and then the given lines.
OneBlock(file) ==
  /\ Len(file) >= 1
  /\ ~StartsWithTag(file[1])
  /\ \A k \in 1..Len(file) : ~IsBlank(file[k]) /\ ~IsComment(file[k])

\* C16: ParseAlbumFile fails on a block with a second line that is neither
\* a tag line nor blank, and does not take that line as the description.
C16_SecondDescriptionFails ==
  (/\ run = 1
   /\ OneBlock(albumFile)
   /\ Len(albumFile) >= 3
   /\ ~StartsWithTag(albumFile[2])
   /\ ~StartsWithTag(albumFile[3]))
    => /\ pc = "idle"
       /\ a.images = <<>>

\* The lines of the file that are not comments, and among them the first
\* lines of the blocks: the lines that are not blank and follow the start
\* of the file or a blank line.
Uncommented(file) == SelectSeq(file, LAMBDA text : ~IsComment(text))
BlockStarts(lines) ==
  { k \in 1..Len(lines) : ~IsBlank(lines[k]) /\ (k = 1 \/ IsBlank(lines[k - 1])) }
\* The j-th smallest member of a set of numbers.
Nth(S, j) == CHOOSE k \in S : Cardinality({ m \in S : m < k }) = j - 1

\* C17: ParseAlbumFile returns without error one image per block, in file
\* order, a block being a run of lines between blank lines once the '#'
\* lines are taken out, and its filename the block's first line trimmed;
\* so leading and repeated blank lines add nothing, the last block needs
\* no blank line after it, and a file with no filename line gives no image.
C17_OneRecordPerBlock ==
  (run = 1 /\ WrittenRecords = <<>>) =>
    LET lines == Uncommented(albumFile)
        starts == BlockStarts(lines)
    IN /\ Loaded
       /\ Len(LoadedRecords) = Cardinality(starts)
       /\ \A j \in 1..Len(LoadedRecords) :
            LoadedRecords[j].Filename = TrimSpace(lines[Nth(starts, j)])

C17_Witness ==
  /\ Loaded
  /\ albumFile = << NameA, CommentLine, <<>>, PaddedNameB >>
  /\ Len(LoadedRecords) = 2
  /\ LoadedRecords[1].Filename = NameA
  /\ LoadedRecords[2].Filename = NameB

\* Whether a line starts with the 5-character prefix "Tag: ".
HasTagPrefix(text) == HasPrefix(text, TagPrefix)

\* The non-empty trimmed pieces, between commas, of what follows the prefix
\* on every line with the prefix, in order.
RECURSIVE PiecesOfTagLines(_)
PiecesOfTagLines(lines) ==
  IF lines = <<>> THEN <<>>
  ELSE (IF HasTagPrefix(Head(lines))
          THEN LET pieces == Split(SubSeq(Head(lines), 6, Len(Head(lines))), ",")
               IN SelectSeq([k \in 1..Len(pieces) |-> TrimSpace(pieces[k])],
                            LAMBDA piece : piece # <<>>)
          ELSE <<>>)
       \o PiecesOfTagLines(Tail(lines))

\* C18: for a file that is one block (a filename line, at most one line
\* without the prefix right after it, then lines with the prefix),
\* ParseAlbumFile returns one image: its filename the first line, its
\* description the trimmed line without the prefix or empty when there is
\* none, its tags the pieces of the lines with the prefix; a line with the
\* prefix and no non-empty piece gives no tag and is not the description.
C18_FieldsOfBlock ==
  (/\ Loaded
   /\ WrittenRecords = <<>>
   /\ OneBlock(albumFile)
   /\ \A k \in 3..Len(albumFile) : HasTagPrefix(albumFile[k]))
    => /\ Len(LoadedRecords) = 1
       /\ LoadedRecords[1].Filename = TrimSpace(albumFile[1])
       /\ LoadedRecords[1].Description =
            (IF Len(albumFile) >= 2 /\ ~HasTagPrefix(albumFile[2])
               THEN TrimSpace(albumFile[2]) ELSE <<>>)
       /\ LoadedRecords[1].Tags = PiecesOfTagLines(Tail(albumFile))

\* C19: when no image is chosen, nothing panics, and the Install that has
\* returned made no album page call and no image page call.
C19_EmptyChosen ==
  (run > 0 /\ pc # "ChooseImages" /\ N = 0)
    => /\ pc # "panic"
       /\ Installed => htmlCalls = <<>>

\* What a page call does to its target file in one step: the file is left
\* as it was when it existed and force is off, and is written by this run
\* otherwise.
SkippedOrWritten(target) ==
  IF target \in DOMAIN html /\ ~a.ForceGenerateHTML
    THEN target \in DOMAIN html' /\ html'[target] = html[target]
    ELSE target \in DOMAIN html' /\ html'[target].mtime = run

\* C20: every page call of GenerateHTML (album pages, image pages) and the
\* gallery page call leaves its target unchanged when the file exists and
\* HTML force is off, and writes it when it is absent or force is on; the
\* call reports a write exactly in the second case, and no other file
\* changes.
C20_SkipOrWrite ==
  [][ /\ pc = "GenerateHTML" =>
           /\ \A c \in 1..Len(htmlCalls') :
                /\ SkippedOrWritten(htmlCalls'[c].file)
                /\ htmlCalls'[c].wrote <=>
                     (htmlCalls'[c].file \notin DOMAIN html \/ a.ForceGenerateHTML)
           /\ \A f \in DOMAIN html :
                (\A c \in 1..Len(htmlCalls') : htmlCalls'[c].file # f)
                  => f \in DOMAIN html' /\ html'[f] = html[f]
      /\ pc = "makeGalleryHTML" =>
           /\ SkippedOrWritten(GalleryPageFilename)
           /\ \A f \in DOMAIN html \ { GalleryPageFilename } :
                f \in DOMAIN html' /\ html'[f] = html[f]
    ]_vars

C20_Witness ==
  /\ Installed
  /\ run = 2
  /\ ~a.ForceGenerateHTML
  /\ GalleryPageFilename \in DOMAIN html
  /\ html[GalleryPageFilename].mtime = 1
  /\ \E c \in 1..Len(htmlCalls) :
       ~htmlCalls[c].wrote /\ html[htmlCalls[c].file].mtime = 1
  /\ \E c \in 1..Len(htmlCalls) :
       htmlCalls[c].wrote /\ html[htmlCalls[c].file].mtime = 2

\* C30: for every chosen image with flat index i and page size p, the
\* thumbnail link image-i.html is among the images of exactly one album page
\* call, page floor(i/p)+1, and of the page file that call writes; and the
\* image page the run writes for i has as back link the file of that page:
\* index.html when floor(i/p) = 0, page-(floor(i/p)+1).html otherwise.
C30_CrossLinks ==
  Installed =>
    \A i \in 0..(N - 1) :
      LET p == a.PageSize
          k == (i \div p) + 1
          holders == { c \in 1..Len(AlbumCalls) :
                         \E j \in 1..Len(AlbumCalls[c].images) :
                           AlbumCalls[c].images[j].Index = i }
          pageFile == IF i \div p = 0 THEN "index.html"
                      ELSE "page-" \o ToString(k) \o ".html"
      IN /\ holders = {k}
         /\ AlbumCalls[k].file = pageFile
         /\ AlbumCalls[k].wrote =>
              \A f \in DOMAIN html :
                (html[f].kind = "album" /\ html[f].mtime = run) =>
                  ((\E j \in 1..Len(html[f].Images) : html[f].Images[j].Index = i)
                     <=> f = pageFile)
         /\ \A c \in 1..Len(ImageCalls) :
              (ImageCalls[c].index = i /\ ImageCalls[c].wrote) =>
                /\ ImageCalls[c].file = "image-" \o ToString(i) \o ".html"
                /\ html[ImageCalls[c].file].BackURL = pageFile
                /\ html[ImageCalls[c].file].BackURL \in DOMAIN html

C30_Witness ==
  /\ Installed
  /\ N = 3
  /\ a.PageSize = 2
  /\ "image-2.html" \in DOMAIN html
  /\ html["image-2.html"].BackURL = "page-2.html"
  /\ html["image-0.html"].BackURL = "index.html"
  /\ \E j \in 1..Len(html["page-2.html"].Images) :
       html["page-2.html"].Images[j].Index = 2
\* The pool of the current run is at work.
InPool == poolRun = run /\ pc \in { "send", "close", "wait", "blocked" }

\* The workers inside makeImages on chosen image k.
Holders(k) == { w \in DOMAIN workers : WorkerBusy(w) /\ workers[w].k = k }

\* C24: during GenerateImages the chosen images taken from the queue are
\* those before the one being offered; each of them is either still with
\* exactly one worker or has returned from its one makeImages call, never
\* both; a worker is only ever inside makeImages on an image taken from the
\* queue; at most a.Workers images are in progress; and when the
\* dispatcher has closed the queue every chosen image was taken.
C24_OncePerImage ==
  InPool =>
    /\ received = 1..(sendIdx - 1)
    /\ \A k \in received :
         IF k \in returned THEN Holders(k) = {} ELSE Cardinality(Holders(k)) = 1
    /\ \A w \in DOMAIN workers : WorkerBusy(w) => workers[w].k \in received
    /\ Cardinality({ w \in DOMAIN workers : WorkerBusy(w) }) <= a.Workers
    /\ Cardinality(received \ returned) <= a.Workers
    /\ pc # "send" => received = 1..N

C24_Witness ==
  /\ InPool
  /\ pc = "send"
  /\ a.Workers = 2
  /\ N >= 2
  /\ Cardinality({ w \in DOMAIN workers : WorkerBusy(w) }) = 2
  /\ returned # {}
\* C23: with a.Workers >= 1, and every makeImages call returning, a started
\* GenerateImages can always go on until it returns: in no state of the
\* pool has the process panicked, and in every state of the pool some step
\* of the dispatcher or of a worker is possible.
C23_Returns ==
  (poolRun = run /\ run > 0 /\ a.Workers >= 1)
    => /\ pc # "panic"
       /\ InPool => ENABLED Next
\* The makeImages call on chosen image k has returned on a failed
\* thumbnail step: makeThumbnail sets the thumbnail fields whenever it
\* returns without error.
ThumbnailFailed(k) == k \in returned /\ Chosen(k).ThumbnailPath = <<>>

C26_WrittenParsesBack ==
  (run = 1 /\ albumFile = writeAlbumFile(WrittenRecords) /\ WrittenRecords # <<>>)
    => /\ pc = "ChooseImages"
       /\ Len(a.images) = Len(WrittenRecords)
       /\ \A k \in 1..Len(WrittenRecords) :
            /\ heap[a.images[k]].Filename = WrittenRecords[k].Filename
            /\ heap[a.images[k]].Description = WrittenRecords[k].Description
            /\ heap[a.images[k]].Tags = WrittenRecords[k].Tags
\* C29: when Install has returned, with HTML force-regeneration off, the
\* pages in the install directory agree with this run: an album page has a
\* next link iff the file of the next page exists; image-K.html shows the
\* image at index K of chosenImages, and has a next link iff
\* image-(K+1).html exists.
C29_PagesAgreeWithLatestRun ==
  (Installed /\ ~a.ForceGenerateHTML) =>
    \A f \in DOMAIN html :
      /\ html[f].kind = "album" =>
           (html[f].NextURL # "" <=> AlbumPageFilename(html[f].Page + 1) \in DOMAIN html)
      /\ html[f].kind = "image" =>
           /\ html[f].Index < N
           /\ html[f].Index < N =>
                html[f].OriginalImageURL = Chosen(html[f].Index + 1).Filename
           /\ html[f].NextURL # "" <=> ImagePageFilename(html[f].Index + 1) \in DOMAIN html
\* What one uninterrupted Install of the album file into an empty install
\* directory leaves: [disk, html].
Uninterrupted ==
  LET images == LoadedImages(a, ParseAlbumFile(albumFile).images)
      resized == OneAfterTheOther(images, <<>>, EmptyMap, a.ForceGenerateImages, 1)
      alb == [a EXCEPT !.images = [k \in 1..Len(images) |-> k],
                       !.chosenImages = [k \in 1..Len(images) |-> k]]
  IN [disk |-> resized.disk,
      html |-> GenerateHTMLResult(EmptyMap, resized.images, alb, 1).files]

\* The same files with the same contents, whenever they were written.
SameFiles(x, y) ==
  /\ DOMAIN x = DOMAIN y
  /\ \A p \in DOMAIN x : [x[p] EXCEPT !.mtime = 0] = [y[p] EXCEPT !.mtime = 0]

\* C25: when an Install with the force flags off has run to completion,
\* after any interruptions of earlier runs with the same inputs, the install
\* directory holds the derived images and the pages, with the contents and
\* links, that one uninterrupted run leaves.
C25_RerunAsUninterrupted ==
  (Installed /\ poolRun = run /\ Len(a.Tags) = 0
     /\ ~a.ForceGenerateImages /\ ~a.ForceGenerateHTML)
    => /\ SameFiles(disk, Uninterrupted.disk)
       /\ SameFiles(html, Uninterrupted.html)
\* The required keys a block of the gallery file has no line for.
LacksRequiredKey(b) == b.Dir = <<>> \/ b.SubDir = <<>> \/ b.File = <<>>

\* Gallery.load has returned.
GalleryLoaded == g.pc \in { "albums", "failed", "done", "panic" }

\* C21: when some block of the gallery file, the first or a later one,
\* lacks one of the required keys, Gallery.load returns an error.
C21_MissingKeyFails ==
  (GalleryLoaded /\ \E k \in 1..Len(g.blocks) : LacksRequiredKey(g.blocks[k]))
    => (g.pc = "failed" /\ g.calls = <<>> /\ g.err # "")
\* C28: when Gallery.load has returned without error, there is one album
\* for each block, and its directory, subdirectory, file and tags are those
\* of its own block: a block with no album-tags line gives an album with
\* no wanted tags.
C28_OwnBlockOnly ==
  (GalleryLoaded /\ g.pc # "failed") =>
    /\ Len(g.albums) = Len(g.blocks)
    /\ \A k \in 1..Len(g.albums) :
         /\ g.albums[k].Name = g.blocks[k].Name
         /\ g.albums[k].OrigImageDir = g.blocks[k].Dir
         /\ g.albums[k].InstallSubDir = g.blocks[k].SubDir
         /\ g.albums[k].File = g.blocks[k].File
         /\ g.albums[k].Tags = AlbumTagsOf(g.blocks[k].Tags)
         /\ g.blocks[k].Tags = <<>> => g.albums[k].Tags = <<>>

\* The calls of album.Install() made so far are on the first albums of
\* g.albums, in order.
CallsInOrder == g.calls = [k \in 1..Len(g.calls) |-> k]

\* album.Install() on this album returns an error.
InstallFails(album) == album.File = MissingFile

\* C22: Gallery.Install calls album.Install() on the albums in the order of
\* g.albums, one HTMLAlbum being collected for each call that returned nil;
\* a call that returns an error is the last call made, Gallery.Install has
\* then returned an error, and the gallery index is not written; the index
\* is written only after a call on every album, none of which failed.
C22_FailFast ==
  /\ CallsInOrder
  /\ Len(g.calls) <= Len(g.albums)
  /\ \A k \in 1..Len(g.calls) :
       InstallFails(g.albums[k])
         => /\ k = Len(g.calls)
            /\ g.pc = "failed"
            /\ g.err # ""
            /\ Len(htmlAlbums) = k - 1
            /\ GalleryPageFilename \notin DOMAIN html
  /\ g.pc = "failed" => GalleryPageFilename \notin DOMAIN html
  /\ g.pc = "albums" => Len(htmlAlbums) = Len(g.calls)
  /\ GalleryPageFilename \in DOMAIN html =>
       /\ g.pc = "done"
       /\ Len(g.calls) = Len(g.albums)
       /\ \A k \in 1..Len(g.albums) : ~InstallFails(g.albums[k])
       /\ Len(html[GalleryPageFilename].Albums) = Len(g.albums)

\* The first album is installed, the second fails, and Gallery.Install has
\* returned its error.
C22_Witness ==
  /\ g.pc = "failed"
  /\ Len(g.albums) = 2
  /\ g.calls = << 1, 2 >>
  /\ ~InstallFails(g.albums[1])
  /\ InstallFails(g.albums[2])
  /\ Len(htmlAlbums) = 1
====
